---------------------------- MODULE Spec2Model ----------------------------
(***************************************************************************)
(* A model of mat_segmentation_editor.py: the mask locator (MatProcessor), *)
(* the background loader (MatLoader) and the editor window                 *)
(* (MatSegmentEditor) with its load / toggle / apply / reset / save        *)
(* handlers.                                                               *)
(*                                                                         *)
(* Python strings are modelled as sequences of one-character strings, so   *)
(* that lower(), substring search, startswith() and split('.') are         *)
(* computed rather than assumed.  numpy values are modelled as records     *)
(* [kind, shape, data, elems, fields]:                                     *)
(*   "num"    a numeric ndarray: shape and flat (C order) data              *)
(*   "obj"    an object ndarray (a MATLAB cell): shape and flat elems       *)
(*   "struct" a structured ndarray (a MATLAB struct): shape and, per field, *)
(*            the object column var[field] of that shape                   *)
(*   "void"   one record of a structured array (numpy.void)                *)
(*   "scalar" a numpy / Python scalar                                      *)
(*   "other"  any non-array Python object (bytes, str, list)               *)
(*   "none"   None                                                         *)
(*   "error"  the marker of a raised exception                             *)
(***************************************************************************)
EXTENDS Integers, Sequences, FiniteSets, TLC

-----------------------------------------------------------------------------
(* Python strings *)

UpperAlpha == <<"A","B","C","D","E","F","G","H","I","J","K","L","M",
                "N","O","P","Q","R","S","T","U","V","W","X","Y","Z">>

LowerAlpha == <<"a","b","c","d","e","f","g","h","i","j","k","l","m",
                "n","o","p","q","r","s","t","u","v","w","x","y","z">>

\* str.lower() on one character
LowerChar(c) ==
  IF \E i \in 1..Len(UpperAlpha) : UpperAlpha[i] = c
  THEN LowerAlpha[CHOOSE i \in 1..Len(UpperAlpha) : UpperAlpha[i] = c]
  ELSE c

\* str.lower()
Lower(s) == [i \in 1..Len(s) |-> LowerChar(s[i])]

\* s.startswith(p)
StartsWith(s, p) == Len(s) >= Len(p) /\ SubSeq(s, 1, Len(p)) = p

\* sub in s
Contains(s, sub) ==
  \E i \in 1..(Len(s) - Len(sub) + 1) : SubSeq(s, i, i + Len(sub) - 1) = sub

\* the positions of character c in s
Positions(s, c) == {i \in 1..Len(s) : s[i] = c}

\* s.split('.')[0]
SplitDot0(s) ==
  IF Positions(s, ".") = {} THEN s
  ELSE LET i == CHOOSE j \in Positions(s, ".") :
                  \A k \in Positions(s, ".") : j <= k
       IN SubSeq(s, 1, i - 1)

\* s.split('.')[1], for s holding at least one '.'
SplitDot1(s) ==
  LET i    == CHOOSE j \in Positions(s, ".") :
                  \A k \in Positions(s, ".") : j <= k
      rest == SubSeq(s, i + 1, Len(s))
  IN SplitDot0(rest)

\* os.path.dirname
Dirname(p) ==
  IF Positions(p, "/") = {} THEN <<>>
  ELSE LET i == CHOOSE j \in Positions(p, "/") :
                  \A k \in Positions(p, "/") : j >= k
       IN IF i = 1 THEN <<"/">> ELSE SubSeq(p, 1, i - 1)

\* os.path.basename
Basename(p) ==
  IF Positions(p, "/") = {} THEN p
  ELSE LET i == CHOOSE j \in Positions(p, "/") :
                  \A k \in Positions(p, "/") : j >= k
       IN SubSeq(p, i + 1, Len(p))

\* os.path.splitext(b)[0], b a base name: a leading '.' starts no extension
SplitextRoot(b) ==
  LET dots == {i \in Positions(b, ".") : \E k \in 1..(i - 1) : b[k] # "."}
  IN IF dots = {} THEN b
     ELSE SubSeq(b, 1, (CHOOSE j \in dots : \A k \in dots : j >= k) - 1)

\* os.path.join(d, f)
PathJoin(d, f) ==
  IF d = <<>> THEN f
  ELSE IF d[Len(d)] = "/" THEN d \o f
  ELSE d \o <<"/">> \o f

K_GTinst == <<"G","T","i","n","s","t">>

K_GTcls == <<"G","T","c","l","s">>

K_segmentation == <<"s","e","g","m","e","n","t","a","t","i","o","n">>

F_Segmentation == <<"S","e","g","m","e","n","t","a","t","i","o","n">>

\* common_segmentation_names
common_segmentation_names ==
  << K_segmentation, <<"s","e","g">>, <<"m","a","s","k">>,
     <<"l","a","b","e","l","s">>, <<"g","t">> >>

EditedSuffix == <<"_","e","d","i","t","e","d",".","m","a","t">>

-----------------------------------------------------------------------------
(* numpy values *)

Val(k, sh, d, e, f) == [kind |-> k, shape |-> sh, data |-> d, elems |-> e, fields |-> f]

NoneVal == Val("none", <<>>, <<>>, <<>>, <<>>)

ErrorVal == Val("error", <<>>, <<>>, <<>>, <<>>)

OtherVal == Val("other", <<>>, <<>>, <<>>, <<>>)

Scalar(v) == Val("scalar", <<>>, <<v>>, <<>>, <<>>)

Num(sh, d) == Val("num", sh, d, <<>>, <<>>)

Obj(sh, e) == Val("obj", sh, <<>>, e, <<>>)

Struct(sh, f) == Val("struct", sh, <<>>, <<>>, f)

Void(f) == Val("void", <<>>, <<>>, <<>>, f)

Field(n, c) == [name |-> n, col |-> c]

\* isinstance(v, np.ndarray)
IsNdarray(v) == v.kind \in {"num", "obj", "struct"}

\* len(v.shape)
Ndim(v) == Len(v.shape)

RECURSIVE Prod(_)
Prod(sh) == IF sh = <<>> THEN 1 ELSE Head(sh) * Prod(Tail(sh))

\* v.size
Size(v) == Prod(v.shape)

\* the first n items of a flat sequence
Take(s, n) == SubSeq(s, 1, n)

\* v.dtype.names is a tuple (not None, no AttributeError)
HasDtypeNames(v) == v.kind \in {"struct", "void"}

\* v.dtype.names
DtypeNames(v) == [i \in 1..Len(v.fields) |-> v.fields[i].name]

\* name in v.dtype.names
InNames(name, v) == \E i \in 1..Len(v.fields) : v.fields[i].name = name


\* v[0, 0]: an element of a 2-D array, a sub-array of a higher-rank one;
\* raises (ErrorVal) on a non-array, on rank < 2 and on an empty leading axis
Index00(v) ==
  IF ~IsNdarray(v) \/ Ndim(v) < 2 THEN ErrorVal
  ELSE IF v.shape[1] = 0 \/ v.shape[2] = 0 THEN ErrorVal
  ELSE IF Ndim(v) = 2 THEN
    CASE v.kind = "num" -> Scalar(v.data[1])
      [] v.kind = "obj" -> v.elems[1]
      [] v.kind = "struct" ->
           Void([i \in 1..Len(v.fields) |->
                   Field(v.fields[i].name, v.fields[i].col.elems[1])])
  ELSE
    LET sh == SubSeq(v.shape, 3, Ndim(v))
        n  == Prod(sh)
    IN CASE v.kind = "num" -> Num(sh, Take(v.data, n))
         [] v.kind = "obj" -> Obj(sh, Take(v.elems, n))
         [] v.kind = "struct" ->
              Struct(sh, [i \in 1..Len(v.fields) |->
                            Field(v.fields[i].name,
                                  Obj(sh, Take(v.fields[i].col.elems, n)))])

\* v[name] for a field name of v: the stored object of a record (numpy.void),
\* the object column of a structured array
GetField(v, name) ==
  LET i == CHOOSE j \in 1..Len(v.fields) : v.fields[j].name = name
  IN v.fields[i].col

-----------------------------------------------------------------------------
(* Containers: the dict loadmat returns, as the sequence of its items in   *)
(* insertion order.                                                        *)

Item(k, v) == [key |-> k, val |-> v]

\* key in mat_data
HasKey(mat, k) == \E i \in 1..Len(mat) : mat[i].key = k

\* mat_data[key]
Get(mat, k) == mat[CHOOSE i \in 1..Len(mat) : mat[i].key = k].val

\* mat_data[key] = v
Put(mat, k, v) ==
  IF HasKey(mat, k)
  THEN [i \in 1..Len(mat) |-> IF mat[i].key = k THEN Item(k, v) ELSE mat[i]]
  ELSE Append(mat, Item(k, v))

\* a (mask, source) pair; (None, None) is Found(NoneVal, <<>>)
Found(m, p) == [mask |-> m, path |-> p]

NotFound == Found(NoneVal, <<>>)

\* f"{var_name}.{field_name}"
Dotted(var, field) == var \o <<".">> \o field

-----------------------------------------------------------------------------
(* MatProcessor *)

\* the outcome of inspecting one candidate
Probe(r, h, m) == [raised |-> r, hit |-> h, mask |-> m]

Raised == Probe(TRUE, FALSE, NoneVal)

Miss == Probe(FALSE, FALSE, NoneVal)

Hit(m) == Probe(FALSE, TRUE, m)

\* the inspection of mat_data['GTinst'] / mat_data['GTcls'] (lines 56-60, 64-68)
ProbeStruct(var) ==
  LET gt_data == Index00(var)
  IN IF gt_data.kind = "error" THEN Raised
     ELSE IF ~HasDtypeNames(gt_data) THEN Raised
     ELSE IF ~InNames(F_Segmentation, gt_data) THEN Miss
     ELSE LET seg_mask == Index00(GetField(gt_data, F_Segmentation))
          IN IF seg_mask.kind = "error" THEN Raised
             ELSE IF IsNdarray(seg_mask) /\ Ndim(seg_mask) \in {2, 3}
                  THEN Hit(seg_mask)
                  ELSE Miss

\* the inspection of mat_data['segmentation'] (lines 72-74)
ProbeBare(var) ==
  IF IsNdarray(var) /\ Ndim(var) \in {2, 3} THEN Hit(var) ELSE Miss

\* a processor that looks at GTcls before GTinst
CustomGTclsFirst(mat_data) ==
  LET b == IF HasKey(mat_data, K_GTcls)
           THEN ProbeStruct(Get(mat_data, K_GTcls)) ELSE Miss
  IN IF b.raised THEN NotFound
     ELSE IF b.hit THEN Found(b.mask, Dotted(K_GTcls, F_Segmentation))
     ELSE
       LET a == IF HasKey(mat_data, K_GTinst)
                THEN ProbeStruct(Get(mat_data, K_GTinst)) ELSE Miss
       IN IF a.raised THEN NotFound
          ELSE IF a.hit THEN Found(a.mask, Dotted(K_GTinst, F_Segmentation))
          ELSE
            LET c == IF HasKey(mat_data, K_segmentation)
                     THEN ProbeBare(Get(mat_data, K_segmentation)) ELSE Miss
            IN IF c.hit THEN Found(c.mask, K_segmentation) ELSE NotFound

\* MatProcessor.custom_segmentation_processor: one try block around the
\* three schemas, so that an exception in one abandons the later ones
custom_segmentation_processor(mat_data) ==
  LET a == IF HasKey(mat_data, K_GTinst)
           THEN ProbeStruct(Get(mat_data, K_GTinst)) ELSE Miss
  IN IF a.raised THEN NotFound
     ELSE IF a.hit THEN Found(a.mask, Dotted(K_GTinst, F_Segmentation))
     ELSE
       LET b == IF HasKey(mat_data, K_GTcls)
                THEN ProbeStruct(Get(mat_data, K_GTcls)) ELSE Miss
       IN IF b.raised THEN NotFound
          ELSE IF b.hit THEN Found(b.mask, Dotted(K_GTcls, F_Segmentation))
          ELSE
            LET c == IF HasKey(mat_data, K_segmentation)
                     THEN ProbeBare(Get(mat_data, K_segmentation)) ELSE Miss
            IN IF c.hit THEN Found(c.mask, K_segmentation) ELSE NotFound

\* any(name in field_name.lower() for name in common_segmentation_names)
MatchesVocabulary(field_name) ==
  \E i \in 1..Len(common_segmentation_names) :
     Contains(Lower(field_name), common_segmentation_names[i])

\* the inspection of one field of a structured variable (lines 36-42): the
\* try block is around this one field
ProbeField(var_data, field_name) ==
  IF ~MatchesVocabulary(field_name) THEN Miss
  ELSE LET field_data == Index00(GetField(var_data, field_name))
       IN IF field_data.kind = "error" THEN Raised
          ELSE IF IsNdarray(field_data) /\ Ndim(field_data) \in {2, 3}
               THEN Hit(field_data)
               ELSE Miss

\* the loop over var_data.dtype.names from field i on: the index of the first
\* field that is returned, 0 when none is
RECURSIVE FirstField(_, _)
FirstField(var_data, i) ==
  IF i > Len(var_data.fields) THEN 0
  ELSE IF ProbeField(var_data, var_data.fields[i].name).hit THEN i
  ELSE FirstField(var_data, i + 1)

\* the body of the loop over mat_data.items() for one item (lines 27-46)
ProbeItem(item) ==
  IF StartsWith(item.key, <<"_", "_">>) THEN Found(NoneVal, <<>>)
  ELSE IF ~IsNdarray(item.val) THEN Found(NoneVal, <<>>)
  ELSE IF item.val.kind = "struct" /\ Len(item.val.fields) > 0 THEN
    LET i == FirstField(item.val, 1)
    IN IF i = 0 THEN Found(NoneVal, <<>>)
       ELSE Found(ProbeField(item.val, item.val.fields[i].name).mask,
                  Dotted(item.key, item.val.fields[i].name))
  ELSE IF Ndim(item.val) \in {2, 3} /\ item.val.kind # "obj"
       THEN Found(item.val, item.key)
       ELSE Found(NoneVal, <<>>)

\* the loop over mat_data.items() from item i on
RECURSIVE FindFrom(_, _)
FindFrom(mat_data, i) ==
  IF i > Len(mat_data) THEN NotFound
  ELSE IF ProbeItem(mat_data[i]).mask.kind # "none" THEN ProbeItem(mat_data[i])
  ELSE FindFrom(mat_data, i + 1)

\* MatProcessor.find_segmentation_mask
find_segmentation_mask(mat_data) == FindFrom(mat_data, 1)

\* the sorted sequence of the members of a finite set of integers
RECURSIVE SortedSeq(_)
SortedSeq(S) ==
  IF S = {} THEN <<>>
  ELSE LET m == CHOOSE x \in S : \A y \in S : x <= y
       IN <<m>> \o SortedSeq(S \ {m})

\* extract_classes raises: np.unique cannot order records, and for an object
\* mask whose elements are arrays of more than one element `id != 0` has no
\* truth value
ExtractRaises(seg_mask) ==
  \/ seg_mask.kind = "struct"
  \/ /\ seg_mask.kind = "obj"
     /\ \E i \in 1..Len(seg_mask.elems) :
          ~ \/ seg_mask.elems[i].kind = "scalar"
            \/ seg_mask.elems[i].kind = "num" /\ Size(seg_mask.elems[i]) = 1

\* the labels np.unique sees
Labels(seg_mask) ==
  IF seg_mask.kind = "obj"
  THEN {seg_mask.elems[i].data[1] : i \in 1..Len(seg_mask.elems)}
  ELSE {seg_mask.data[i] : i \in 1..Len(seg_mask.data)}

\* MatProcessor.extract_classes: np.unique is sorted, 0 is left out
extract_classes(seg_mask) ==
  IF seg_mask.kind = "none" THEN <<>>
  ELSE SortedSeq({id \in Labels(seg_mask) : id # 0})

-----------------------------------------------------------------------------
(* numpy assignment *)

\* the shape without its leading 1s, down to n dimensions at least
RECURSIVE StripOnes(_, _)
StripOnes(sh, n) ==
  IF Len(sh) > n /\ Head(sh) = 1 THEN StripOnes(Tail(sh), n) ELSE sh

\* the shape padded with leading 1s to n dimensions
RECURSIVE PadOnes(_, _)
PadOnes(sh, n) == IF Len(sh) < n THEN PadOnes(<<1>> \o sh, n) ELSE sh

\* the source shape as broadcast against the target shape tsh, <<-1>> when the
\* shapes do not broadcast ("could not broadcast input array")
BroadcastShape(msh, tsh) ==
  LET s == StripOnes(msh, Len(tsh))
  IN IF Len(s) > Len(tsh) THEN <<-1>>
     ELSE LET q == PadOnes(s, Len(tsh))
          IN IF \A d \in 1..Len(tsh) : q[d] = tsh[d] \/ q[d] = 1
             THEN q ELSE <<-1>>

\* the flat (1-based) source position that target position k (1-based) of an
\* array of shape tsh takes its value from, the source having shape q
SourceIndex(k, tsh, q) ==
  LET n == Len(tsh)
      tstride(d) == Prod(SubSeq(tsh, d + 1, n))
      qstride(d) == Prod(SubSeq(q, d + 1, n))
      idx(d) == ((k - 1) \div tstride(d)) % tsh[d]
      RECURSIVE Sum(_)
      Sum(d) == IF d > n THEN 0
                ELSE (IF q[d] = 1 THEN 0 ELSE idx(d) * qstride(d)) + Sum(d + 1)
  IN 1 + Sum(1)

\* item i of array m as an object to store in an object array
AsObject(m, i) == IF m.kind = "num" THEN Scalar(m.data[i]) ELSE m.elems[i]

\* target[...] = m for a whole view `target`: m is broadcast to the view's
\* shape; ErrorVal when numpy raises
AssignBroadcast(target, m) ==
  LET q == BroadcastShape(m.shape, target.shape)
      n == Size(target)
  IN IF q = <<-1>> THEN ErrorVal
     ELSE IF target.kind = "num" /\ m.kind = "num"
       THEN Num(target.shape,
                [k \in 1..n |-> m.data[SourceIndex(k, target.shape, q)]])
     ELSE IF target.kind = "obj" /\ m.kind \in {"num", "obj"}
       THEN Obj(target.shape,
                [k \in 1..n |-> AsObject(m, SourceIndex(k, target.shape, q))])
     ELSE ErrorVal

\* array x with its first Size(part) items replaced by those of part
Overlay(x, part) ==
  IF part.kind = "error" THEN ErrorVal
  ELSE IF x.kind = "num"
    THEN Num(x.shape, [k \in 1..Len(x.data) |->
                         IF k <= Len(part.data) THEN part.data[k] ELSE x.data[k]])
    ELSE Obj(x.shape, [k \in 1..Len(x.elems) |->
                         IF k <= Len(part.elems) THEN part.elems[k] ELSE x.elems[k]])

\* x[0, 0] = m, for x of rank >= 2 with x.shape[0] = x.shape[1] = 1: the
\* array x as it is afterwards, ErrorVal when numpy raises
SetIndex00(x, m) ==
  IF Ndim(x) = 2 THEN
    IF x.kind = "obj" THEN Obj(x.shape, <<m>>)
    ELSE IF x.kind = "num" /\ m.kind = "num" /\ Size(m) = 1
      THEN Num(x.shape, <<m.data[1]>>)
    ELSE ErrorVal
  ELSE IF x.kind \in {"num", "obj"}
    THEN Overlay(x, AssignBroadcast(Index00(x), m))
  ELSE ErrorVal

\* x[0] = m, for x of rank 2 with x.shape[0] = 1
SetIndex0(x, m) ==
  IF x.kind \in {"num", "obj"}
  THEN Overlay(x, AssignBroadcast(
                    Val(x.kind, <<x.shape[2]>>, x.data, x.elems, <<>>), m))
  ELSE ErrorVal

\* v with the column / stored object of field name replaced by c
WithField(v, name, c) ==
  Val(v.kind, v.shape, v.data, v.elems,
      [i \in 1..Len(v.fields) |->
         IF v.fields[i].name = name THEN Field(name, c) ELSE v.fields[i]])

\* the (1, 1) array s with its one element replaced by e: a record put back
\* into a structured array, an object put back into an object array
WithElement00(s, e) ==
  IF s.kind = "struct"
  THEN Struct(s.shape,
              [i \in 1..Len(s.fields) |->
                 Field(s.fields[i].name,
                       Obj(s.shape, <<e.fields[i].col>>))])
  ELSE Obj(s.shape, <<e>>)

-----------------------------------------------------------------------------
(* The write-back of save_result (lines 449-481) *)

SaveOutcome(r, m) == [raised |-> r, mat |-> m]

\* the branch for a source that starts with "GTinst." or "GTcls."
WriteStruct(mat_data, source_info, seg_mask) ==
  LET struct_name == SplitDot0(source_info)
      field_name  == SplitDot1(source_info)
      s           == Get(mat_data, struct_name)
  IN IF ~(IsNdarray(s) /\ Ndim(s) = 2 /\ s.shape = <<1, 1>>)
     THEN SaveOutcome(TRUE, mat_data)
     ELSE
       LET e == Index00(s)
       IN IF ~HasDtypeNames(e) \/ ~InNames(field_name, e)
          THEN SaveOutcome(TRUE, mat_data)
          ELSE
            LET original_field == GetField(e, field_name)
                new_field ==
                  IF ~(IsNdarray(original_field) \/ original_field.kind = "scalar")
                    THEN ErrorVal
                  ELSE IF /\ Ndim(original_field) >= 2
                          /\ original_field.shape[1] = 1
                          /\ original_field.shape[2] = 1
                    THEN SetIndex00(original_field, seg_mask)
                  ELSE IF Ndim(original_field) = 2 /\ original_field.shape[1] = 1
                    THEN SetIndex0(original_field, seg_mask)
                  ELSE IF e.kind = "void" THEN seg_mask
                  ELSE AssignBroadcast(original_field, seg_mask)
            IN IF new_field.kind = "error"
               THEN SaveOutcome(TRUE, mat_data)
               ELSE SaveOutcome(FALSE,
                      Put(mat_data, struct_name,
                          WithElement00(s, WithField(e, field_name, new_field))))

\* the update of self.mat_data in save_result
WriteBack(mat_data, source_info, seg_mask) ==
  IF \/ StartsWith(source_info, K_GTinst \o <<".">>)
     \/ StartsWith(source_info, K_GTcls \o <<".">>)
  THEN WriteStruct(mat_data, source_info, seg_mask)
  ELSE SaveOutcome(FALSE, Put(mat_data, SplitDot0(source_info), seg_mask))

\* save_path of save_result (lines 435-437)
SavePath(mat_file) ==
  PathJoin(Dirname(mat_file), SplitextRoot(Basename(mat_file)) \o EditedSuffix)

-----------------------------------------------------------------------------
(* The category filter of apply_selection (lines 388-393) *)

\* np.zeros_like(mask)
ZerosLike(mask) == Num(mask.shape, [k \in 1..Len(mask.data) |-> 0])

\* processed_mask[original_mask == class_id] = class_id
CopyClass(processed_mask, original_mask, class_id) ==
  Num(processed_mask.shape,
      [k \in 1..Len(processed_mask.data) |->
         IF original_mask.data[k] = class_id THEN class_id
         ELSE processed_mask.data[k]])

\* the loop over zip(class_ids, keep_status) from pair i on
RECURSIVE FilterFrom(_, _, _, _, _)
FilterFrom(processed_mask, original_mask, class_ids, keep_status, i) ==
  IF i > Len(class_ids) \/ i > Len(keep_status) THEN processed_mask
  ELSE FilterFrom(IF keep_status[i]
                  THEN CopyClass(processed_mask, original_mask, class_ids[i])
                  ELSE processed_mask,
                  original_mask, class_ids, keep_status, i + 1)

\* a filter that copies every category, whatever its keep flag
FilterMaskKeepsAll(original_mask, class_ids, keep_status) ==
  FilterFrom(ZerosLike(original_mask), original_mask, class_ids,
             [i \in 1..Len(keep_status) |-> TRUE], 1)

\* processed_mask of apply_selection
FilterMask(original_mask, class_ids, keep_status) ==
  FilterFrom(ZerosLike(original_mask), original_mask, class_ids, keep_status, 1)

-----------------------------------------------------------------------------
(* The locate step of MatLoader.run (lines 114-139) *)

\* seg_mask, source_info and whether the generic method was tried
Located(m, p, g) == [mask |-> m, path |-> p, generic |-> g]

RunLocate(mat_data) ==
  LET c == custom_segmentation_processor(mat_data)
  IN IF c.mask.kind # "none" THEN Located(c.mask, c.path, FALSE)
     ELSE LET f == find_segmentation_mask(mat_data)
          IN Located(f.mask, f.path, TRUE)

\* the validity check of lines 137-139
MaskValid(seg_mask) == IsNdarray(seg_mask) /\ Ndim(seg_mask) \in {2, 3}

-----------------------------------------------------------------------------
(* The files a user can open: what loadmat returns for each                *)

K_header == <<"_","_","h","e","a","d","e","r","_","_">>

K_Foo == <<"F","o","o">>

K_img == <<"i","m","g">>

F_Mask == <<"M","a","s","k">>

F_Boundaries == <<"B","o","u","n","d","a","r","i","e","s">>

MaskA == Num(<<2, 2>>, <<0, 1, 2, 1>>)

MaskB == Num(<<2, 2>>, <<2, 0, 0, 1>>)

MaskC == Num(<<2, 2>>, <<1, 1, 0, 2>>)

MaskD == Num(<<2, 1>>, <<0, 2>>)

MaskE == Num(<<1, 2>>, <<1, 0>>)

MaskRow == Num(<<1, 2>>, <<2, 1>>)

EmptyMask == Num(<<0, 0>>, <<>>)

Bounds11 == Num(<<1, 1>>, <<7>>)

\* a MATLAB cell {v}
Cell11(v) == Obj(<<1, 1>>, <<v>>)

\* a 1 x 1 MATLAB struct with a Boundaries field and a Segmentation field
\* that holds v
GTStruct(v) ==
  Struct(<<1, 1>>, << Field(F_Boundaries, Cell11(Bounds11)),
                      Field(F_Segmentation, Cell11(v)) >>)

\* what mat_data['GTinst'] may be
GTinstVals ==
  { GTStruct(Cell11(MaskA)),                        \* Segmentation = {mask}
    GTStruct(MaskA),                                \* Segmentation = mask
    GTStruct(Obj(<<1, 2>>, <<MaskRow, Bounds11>>)), \* Segmentation = {row, x}
    GTStruct(Obj(<<1, 2>>, <<MaskA, Bounds11>>)),   \* Segmentation = {mask, x}
    GTStruct(Num(<<1, 1, 2, 2>>, <<0, 1, 2, 1>>)),  \* a 4-D numeric field
    GTStruct(EmptyMask),                            \* Segmentation = []
    Struct(<<1, 1>>, <<Field(F_Boundaries, Cell11(Bounds11))>>),
    Struct(<<1, 2>>, <<Field(F_Segmentation,
                             Obj(<<1, 2>>, <<MaskA, MaskB>>))>>),
    Num(<<2, 2>>, <<1, 0, 0, 1>>),                  \* not a struct
    Cell11(MaskA) }                                 \* a cell, not a struct

\* what mat_data['GTcls'] may be
GTclsVals == { GTStruct(Cell11(MaskB)), GTStruct(MaskB) }

\* what mat_data['segmentation'] may be
segmentationVals ==
  { MaskC, Cell11(MaskC), EmptyMask, Num(<<1, 1, 2, 2>>, <<1, 1, 0, 2>>) }

FooVal ==
  Struct(<<1, 1>>, << Field(F_Boundaries, Cell11(Bounds11)),
                      Field(F_Mask, Cell11(MaskD)) >>)

\* no item, or one item under key k
Opt(k, vals) == {<<>>} \cup {<<Item(k, v)>> : v \in vals}

\* the variables a generic search may meet, in either insertion order
GenericTails ==
  { <<>>, <<Item(K_Foo, FooVal)>>, <<Item(K_img, MaskE)>>,
    <<Item(K_Foo, FooVal), Item(K_img, MaskE)>>,
    <<Item(K_img, MaskE), Item(K_Foo, FooVal)>> }

\* the containers of the single-file sessions
Containers ==
  { <<Item(K_header, OtherVal)>> \o a \o b \o c \o g :
      a \in Opt(K_GTinst, GTinstVals), b \in Opt(K_GTcls, GTclsVals),
      c \in Opt(K_segmentation, segmentationVals), g \in GenericTails }

File(ok, data) == [ok |-> ok, data |-> data]

P_a == <<"a",".","m","a","t">>

P_c == <<"d","/","c",".","m","a","t">>

P_x == <<"x",".","m","a","t">>

\* the files of the concurrent sessions: a nested GTinst mask, a bare mask,
\* and a file loadmat cannot parse
Catalogue ==
  (P_a :> File(TRUE, <<Item(K_header, OtherVal),
                        Item(K_GTinst, GTStruct(Cell11(MaskA)))>>))
  @@ (P_c :> File(TRUE, <<Item(K_header, OtherVal),
                           Item(K_segmentation, MaskE)>>))
  @@ (P_x :> File(FALSE, <<>>))

\* at most this many loads are in flight (a worker running, or its terminal
\* signal not yet delivered)
MaxInFlight == 2

-----------------------------------------------------------------------------
(* State *)

VARIABLES
  fs,             \* the files on disk: path -> what loadmat gives
  mat_file,       \* MatSegmentEditor.mat_file (<<>> is None)
  mat_data,       \* MatSegmentEditor.mat_data (<<>> is None)
  seg_mask,       \* MatSegmentEditor.seg_mask
  original_mask,  \* MatSegmentEditor.original_mask
  class_ids,      \* MatSegmentEditor.class_ids
  keep_status,    \* MatSegmentEditor.keep_status
  source_info,    \* MatSegmentEditor.source_info
  checked,        \* the check state of the items of class_list
  enabled,        \* save_btn / apply_btn / reset_btn are enabled
  status,         \* the last message of update_status, by kind
  file_label,     \* the text of file_label
  loader,         \* self.loader.file_path (<<>> before the first load)
  workers,        \* the running MatLoader threads, in start order
  signals,        \* the queued signals of the loaders, oldest first
  saved,          \* the last file savemat wrote
  crashed         \* the process was aborted

vars == << fs, mat_file, mat_data, seg_mask, original_mask, class_ids,
           keep_status, source_info, checked, enabled, status, file_label,
           loader, workers, signals, saved, crashed >>

session == << mat_file, mat_data, seg_mask, original_mask, class_ids,
              keep_status, source_info >>

Worker(p, o) == [file_path |-> p, orphan |-> o]

Signal(k, f, d, m, c, s) ==
  [kind |-> k, file |-> f, mat_data |-> d, seg_mask |-> m,
   class_ids |-> c, source_info |-> s]

\* a signal without a payload that the model reads
Plain(k, f) == Signal(k, f, <<>>, NoneVal, <<>>, <<>>)

IsTerminal(sig) == sig.kind \in {"finished", "failed"}

\* the loads in flight
InFlight ==
  Len(workers) + Cardinality({i \in 1..Len(signals) : IsTerminal(signals[i])})

AllTrue(n) == [i \in 1..n |-> TRUE]

\* MatSegmentEditor.__init__
InitEditor ==
  /\ mat_file = <<>>
  /\ mat_data = <<>>
  /\ seg_mask = NoneVal
  /\ original_mask = NoneVal
  /\ class_ids = <<>>
  /\ keep_status = <<>>
  /\ source_info = <<>>
  /\ checked = <<>>
  /\ enabled = FALSE
  /\ status = "ready"
  /\ file_label = <<>>
  /\ loader = <<>>
  /\ workers = <<>>
  /\ signals = <<>>
  /\ saved = [path |-> <<>>, data |-> <<>>]
  /\ crashed = FALSE

Init == fs = Catalogue /\ InitEditor

P_f == <<"f",".","m","a","t">>

\* a session over one file, of any of the containers
LocateInit == fs \in {(P_f :> File(TRUE, c)) : c \in Containers} /\ InitEditor

-----------------------------------------------------------------------------
(* The loader thread *)

\* what MatLoader.run emits for the file at file_path: its progress messages
\* (a run of messages that only differ in text is one "progress"; the message
\* of line 125 is "try_generic") and then its one terminal signal
Emitted(file_path) ==
  LET f == fs[file_path]
      r == RunLocate(f.data)
  IN IF ~f.ok
     THEN << Plain("progress", file_path), Plain("failed", file_path) >>
     ELSE
       << Plain("progress", file_path) >>
       \o (IF r.generic THEN << Plain("try_generic", file_path) >> ELSE <<>>)
       \o (IF r.mask.kind = "none" \/ ~MaskValid(r.mask)
           THEN << Plain("failed", file_path) >>
           ELSE (IF r.generic THEN << Plain("progress", file_path) >> ELSE <<>>)
                \o (IF ExtractRaises(r.mask)
                    THEN << Plain("failed", file_path) >>
                    ELSE << Signal("finished", file_path, f.data, r.mask,
                                   extract_classes(r.mask), r.path) >>))

\* MatSegmentEditor.load_mat_file with the file the dialog returned; the
\* loaders started before lose their last reference (self.loader)
LoadMatFile(file_path) ==
  /\ ~crashed
  /\ InFlight < MaxInFlight
  /\ file_label' = Basename(file_path)
  /\ status' = "loading"
  /\ loader' = file_path
  /\ workers' = [i \in 1..Len(workers) |-> Worker(workers[i].file_path, TRUE)]
                  \o << Worker(file_path, FALSE) >>
  /\ UNCHANGED << fs, session, checked, enabled, signals, saved, crashed >>

\* MatLoader.run of the i-th running loader, to its end.  A loader that
\* self.loader no longer names is destroyed when run returns, while its thread
\* still runs: Qt may abort the process there
Run(i) ==
  /\ ~crashed
  /\ signals' = signals \o Emitted(workers[i].file_path)
  /\ workers' = [k \in 1..(Len(workers) - 1) |->
                   IF k < i THEN workers[k] ELSE workers[k + 1]]
  /\ \/ crashed' = FALSE
     \/ workers[i].orphan /\ crashed' = TRUE
  /\ UNCHANGED << fs, session, checked, enabled, status, file_label, loader,
                  saved >>

-----------------------------------------------------------------------------
(* The slots of the editor *)

\* update_status, as the slot of progress_updated
UpdateStatus ==
  /\ ~crashed
  /\ signals # <<>>
  /\ Head(signals).kind \in {"progress", "try_generic"}
  /\ status' = Head(signals).kind
  /\ signals' = Tail(signals)
  /\ UNCHANGED << fs, session, checked, enabled, file_label, loader, workers,
                  saved, crashed >>

\* on_load_finished
OnLoadFinished ==
  /\ ~crashed
  /\ signals # <<>>
  /\ Head(signals).kind = "finished"
  /\ mat_data' = Head(signals).mat_data
  /\ mat_file' = loader
  /\ seg_mask' = Head(signals).seg_mask
  /\ original_mask' = Head(signals).seg_mask
  /\ class_ids' = Head(signals).class_ids
  /\ source_info' = Head(signals).source_info
  /\ keep_status' = AllTrue(Len(Head(signals).class_ids))
  /\ checked' = AllTrue(Len(Head(signals).class_ids))
  /\ enabled' = TRUE
  /\ status' = "loaded"
  /\ signals' = Tail(signals)
  /\ UNCHANGED << fs, file_label, loader, workers, saved, crashed >>

\* a failure handler that drops the loaded session
OnLoadFailedClears ==
  /\ ~crashed
  /\ signals # <<>>
  /\ Head(signals).kind = "failed"
  /\ status' = "load_failed"
  /\ signals' = Tail(signals)
  /\ seg_mask' = NoneVal
  /\ original_mask' = NoneVal
  /\ mat_data' = <<>>
  /\ UNCHANGED << fs, mat_file, class_ids, keep_status, source_info, checked,
                  enabled, file_label, loader, workers, saved, crashed >>

\* on_load_failed
OnLoadFailed ==
  /\ ~crashed
  /\ signals # <<>>
  /\ Head(signals).kind = "failed"
  /\ status' = "load_failed"
  /\ signals' = Tail(signals)
  /\ UNCHANGED << fs, session, checked, enabled, file_label, loader, workers,
                  saved, crashed >>

\* the user checks or unchecks item i of class_list
ToggleCategory(i) ==
  /\ ~crashed
  /\ checked' = [checked EXCEPT ![i] = ~checked[i]]
  /\ UNCHANGED << fs, session, enabled, status, file_label, loader, workers,
                  signals, saved, crashed >>

\* apply_selection
ApplySelection ==
  /\ ~crashed
  /\ enabled
  /\ keep_status' = [i \in 1..Len(keep_status) |->
                       IF i <= Len(checked) THEN checked[i] ELSE keep_status[i]]
  /\ seg_mask' = FilterMask(original_mask, class_ids, keep_status')
  /\ status' = "applied"
  /\ UNCHANGED << fs, mat_file, mat_data, original_mask, class_ids, source_info,
                  checked, enabled, file_label, loader, workers, signals,
                  saved, crashed >>

\* a reset that leaves the working mask as it is
ResetMaskKeepsWorking(original, working) == working

\* the mask reset_selection makes the working mask
ResetMask(original, working) == original

\* reset_selection
ResetSelection ==
  /\ ~crashed
  /\ enabled
  /\ keep_status' = AllTrue(Len(class_ids))
  /\ checked' = AllTrue(Len(checked))
  /\ seg_mask' = ResetMask(original_mask, seg_mask)
  /\ status' = "reset"
  /\ UNCHANGED << fs, mat_file, mat_data, original_mask, class_ids, source_info,
                  enabled, file_label, loader, workers, signals, saved,
                  crashed >>

\* save_result, the user having confirmed the save
SaveResult ==
  /\ ~crashed
  /\ enabled
  /\ mat_file # <<>>
  /\ seg_mask.kind # "none"
  /\ LET out == WriteBack(mat_data, source_info, seg_mask)
     IN \/ /\ out.raised
           /\ status' = "save_failed"
           /\ UNCHANGED << mat_data, saved >>
        \/ /\ ~out.raised
           /\ mat_data' = out.mat
           /\ saved' = [path |-> SavePath(mat_file), data |-> out.mat]
           /\ status' = "saved"
  /\ UNCHANGED << fs, mat_file, seg_mask, original_mask, class_ids, keep_status,
                  source_info, checked, enabled, file_label, loader, workers,
                  signals, crashed >>

Next ==
  \/ \E p \in DOMAIN fs : LoadMatFile(p)
  \/ \E i \in 1..Len(workers) : Run(i)
  \/ UpdateStatus
  \/ OnLoadFinished
  \/ OnLoadFailed
  \/ \E i \in 1..Len(checked) : ToggleCategory(i)
  \/ ApplySelection
  \/ ResetSelection
  \/ SaveResult

Spec == Init /\ [][Next]_vars

\* the one load of a single-file session
LoadOnce(file_path) == loader = <<>> /\ LoadMatFile(file_path)

LocateNext ==
  \/ \E p \in DOMAIN fs : LoadOnce(p)
  \/ \E i \in 1..Len(workers) : Run(i)
  \/ UpdateStatus
  \/ OnLoadFinished
  \/ OnLoadFailed
  \/ \E i \in 1..Len(checked) : ToggleCategory(i)
  \/ ApplySelection
  \/ ResetSelection
  \/ SaveResult

LocateSpec == LocateInit /\ [][LocateNext]_vars

-----------------------------------------------------------------------------
(* Claims *)

\* the nonzero labels of a numeric mask
Categories(mask) == {mask.data[k] : k \in 1..Len(mask.data)} \ {0}

\* the keep flag of label v
Kept(v) == \E i \in 1..Len(class_ids) : class_ids[i] = v /\ keep_status[i]

\* C1: after apply_selection the working mask has the shape of the loaded
\* mask and holds, at each position, the loaded label when that label is a
\* category whose keep flag is true, and 0 otherwise; with every flag true it
\* is the loaded mask, with every flag false it is all zero.  The flags are
\* over the category set, the sorted distinct nonzero labels of the loaded mask.
C1_ApplyFilters ==
  status = "applied" =>
    /\ seg_mask.kind = "num"
    /\ seg_mask.shape = original_mask.shape
    /\ Len(seg_mask.data) = Len(original_mask.data)
    /\ {class_ids[i] : i \in 1..Len(class_ids)} = Categories(original_mask)
    /\ Len(keep_status) = Len(class_ids)
    /\ \A k \in 1..Len(original_mask.data) :
         seg_mask.data[k] =
           IF Kept(original_mask.data[k]) THEN original_mask.data[k] ELSE 0
    /\ (\A i \in 1..Len(keep_status) : keep_status[i])
         => seg_mask = original_mask
    /\ (\A i \in 1..Len(keep_status) : ~keep_status[i])
         => \A k \in 1..Len(seg_mask.data) : seg_mask.data[k] = 0

\* an apply that kept one category and dropped another
C1_Witness ==
  /\ status = "applied"
  /\ \E i \in 1..Len(keep_status) : keep_status[i]
  /\ \E i \in 1..Len(keep_status) : ~keep_status[i]
  /\ seg_mask # original_mask

\* the masks a load can capture from the files on disk
Captured ==
  {RunLocate(fs[p].data).mask : p \in {q \in DOMAIN fs : fs[q].ok}}

\* C2: after reset_selection the working mask equals the mask captured at
\* load and every keep flag is true; apply, reset and save
\* leave original_mask, which is a mask captured from a file, as it was.
C2_ResetRestores ==
  /\ status = "reset" =>
       /\ seg_mask = original_mask
       /\ keep_status = AllTrue(Len(class_ids))
  /\ status \in {"applied", "reset", "saved", "save_failed"} =>
       original_mask \in Captured

\* a reset after a filter and a save had changed the working mask and the
\* container
C2_Witness ==
  /\ status = "reset"
  /\ saved.path # <<>>
  /\ mat_file # <<>>
  /\ mat_data # fs[mat_file].data
  /\ seg_mask = original_mask

\* C8 (as claimed): at most one MatLoader thread runs.
C8_OneWorker == Len(workers) <= 1

\* a step of a load that ends in failure: the open, the run, the delivery of
\* a progress message or of load_failed
LoadFailureStep ==
  \/ workers' # workers
  \/ /\ signals # <<>>
     /\ signals' = Tail(signals)
     /\ Head(signals).kind # "finished"

\* C9: a load that fails is reported and changes nothing of the session:
\* opening the file, running the loader and delivering its progress and
\* load_failed signals leave mat_file, mat_data, seg_mask, original_mask,
\* class_ids, keep_status, source_info and the check boxes as they were.
C9_FailureKeepsSession ==
  [][ LoadFailureStep =>
        /\ UNCHANGED << session, checked, enabled >>
        /\ (signals # <<>> /\ signals' = Tail(signals)
              /\ Head(signals).kind = "failed") => status' = "load_failed"
    ]_vars

\* a failed load on top of an edited session
C9_Witness ==
  /\ status = "load_failed"
  /\ mat_file # <<>>
  /\ loader # mat_file
  /\ ~fs[loader].ok
  /\ seg_mask # original_mask

\* C10 (as claimed): the recorded file path is the path of the file the
\* session's mask and source path were loaded from.
C10_PathMatchesData ==
  mat_file # <<>> =>
    /\ fs[mat_file].ok
    /\ original_mask = RunLocate(fs[mat_file].data).mask
    /\ source_info = RunLocate(fs[mat_file].data).path

-----------------------------------------------------------------------------
(* Claims about the locate step and the write-back *)

RecognizedKeys == << K_GTinst, K_GTcls, K_segmentation >>

\* the first of GTinst, GTcls, segmentation that the container has (0: none)
FirstRecognized(c) ==
  IF \E i \in 1..3 : HasKey(c, RecognizedKeys[i])
  THEN CHOOSE i \in 1..3 :
         /\ HasKey(c, RecognizedKeys[i])
         /\ \A j \in 1..(i - 1) : ~HasKey(c, RecognizedKeys[j])
  ELSE 0

\* the documented path of recognized key i
DocPath(i) ==
  IF i = 3 THEN K_segmentation
  ELSE Dotted(RecognizedKeys[i], F_Segmentation)

\* what the container holds at the documented path of recognized key i:
\* the Segmentation field of the singleton structure, unwrapped, or the bare
\* variable; ErrorVal when there is nothing there
DocArray(c, i) ==
  IF i = 3 THEN Get(c, K_segmentation)
  ELSE LET rec == Index00(Get(c, RecognizedKeys[i]))
       IN IF rec.kind = "error" \/ ~HasDtypeNames(rec) THEN ErrorVal
          ELSE IF ~InNames(F_Segmentation, rec) THEN ErrorVal
          ELSE Index00(GetField(rec, F_Segmentation))

\* the candidate of recognized key i qualifies: a 2-D or 3-D array
Qualifies(c, i) == IsNdarray(DocArray(c, i)) /\ Ndim(DocArray(c, i)) \in {2, 3}

C4_FinishedMaskConcrete ==
  \A n \in 1..Len(signals) :
    signals[n].kind = "finished" =>
      /\ IsNdarray(signals[n].seg_mask)
      /\ Ndim(signals[n].seg_mask) \in {2, 3}
      /\ Size(signals[n].seg_mask) > 0
      /\ signals[n].seg_mask.kind = "num"

\* the candidates of a container in the search order: schema A, B, C, then
\* the items in insertion order; each inspected on its own, a raise in one
\* being a miss of that one
CandidateAt(c, n) ==
  IF n = 1 THEN
    IF HasKey(c, K_GTinst) /\ ProbeStruct(Get(c, K_GTinst)).hit
    THEN Found(ProbeStruct(Get(c, K_GTinst)).mask, DocPath(1)) ELSE NotFound
  ELSE IF n = 2 THEN
    IF HasKey(c, K_GTcls) /\ ProbeStruct(Get(c, K_GTcls)).hit
    THEN Found(ProbeStruct(Get(c, K_GTcls)).mask, DocPath(2)) ELSE NotFound
  ELSE IF n = 3 THEN
    IF HasKey(c, K_segmentation) /\ ProbeBare(Get(c, K_segmentation)).hit
    THEN Found(Get(c, K_segmentation), DocPath(3)) ELSE NotFound
  ELSE ProbeItem(c[n - 3])

\* the first candidate that qualifies, NotFound when none does
FirstQualifying(c) ==
  LET hits == {n \in 1..(Len(c) + 3) : CandidateAt(c, n).mask.kind # "none"}
  IN IF hits = {} THEN NotFound
     ELSE CandidateAt(c, CHOOSE n \in hits : \A m \in hits : n <= m)

\* C5 (as claimed): a failure on one candidate only skips that candidate; a
\* finished load carries the first candidate of the whole order that
\* qualifies, and the locate step fails only when none qualifies.
C5_FailureSkipsOneCandidate ==
  \A n \in 1..Len(signals) :
    LET c == fs[signals[n].file].data
    IN /\ signals[n].kind = "finished" =>
            Found(signals[n].seg_mask, signals[n].source_info)
              = FirstQualifying(c)
       /\ (signals[n].kind = "failed" /\ fs[signals[n].file].ok) =>
            \/ FirstQualifying(c) = NotFound
            \/ ExtractRaises(FirstQualifying(c).mask)

\* C6 (as claimed): the write-back of save_result succeeds on the container
\* of a loaded file, and locating again in the updated container yields the
\* mask that was written.
C6_RoundTrip ==
  /\ status # "save_failed"
  /\ status = "saved" => RunLocate(mat_data).mask = seg_mask

\* source_info is a dotted 'Struct.Field' path
IsDotted(path) == Positions(path, ".") # {}

\* C7 (as claimed): after a save, every key of the container other than the
\* one the source path names has the value it was loaded with, and for a
\* dotted path the named variable is still the structure it was, every
\* sibling field holding what it held.
C7_WriteBackFrame ==
  status = "saved" =>
    LET c0  == fs[mat_file].data
        var == SplitDot0(source_info)
    IN /\ Len(mat_data) = Len(c0)
       /\ \A i \in 1..Len(c0) :
            /\ mat_data[i].key = c0[i].key
            /\ c0[i].key # var => mat_data[i] = c0[i]
       /\ IsDotted(source_info) =>
            LET s0 == Get(c0, var)
                s1 == Get(mat_data, var)
            IN /\ s1.kind = s0.kind
               /\ s1.shape = s0.shape
               /\ DtypeNames(s1) = DtypeNames(s0)
               /\ \A k \in 1..Len(s0.fields) :
                    s0.fields[k].name # SplitDot1(source_info)
                      => s1.fields[k] = s0.fields[k]

=============================================================================
